---- MODULE Spec2Model ----
(***************************************************************************)
(* Model of the bootloader of src/bootloader/src/bootloader.c: the command *)
(* dispatcher (main), handle_update, handle_configure, handle_readback,    *)
(* handle_boot, load_data and decrypt_firmware, over a byte-addressed      *)
(* flash.                                                                  *)
(*                                                                         *)
(* Geometry.  The source works on 1024-byte pages, a 16-page firmware area *)
(* and a 64-page configuration area.  The model keeps the layout of the    *)
(* storage macros (lines 45-59) in units of pages and shrinks the page to  *)
(* PageWords 32-bit words, the firmware area to FwPages pages and the      *)
(* configuration area to CfgPages pages.                                   *)
(*                                                                         *)
(* Every handler is cut into steps at its UART and flash operations; pc is *)
(* the position of the single thread of control.  A device reset may       *)
(* strike between any two steps: it keeps the flash and restarts main.     *)
(***************************************************************************)
EXTENDS Integers, Sequences, FiniteSets, TLC

\* ------------------------------------------------------------------ bounds
PageWords == 3      \* words per flash page (256 in the source)
FwPages == 1        \* pages of the firmware payload area (16 in the source)
CfgPages == 1       \* pages of the configuration payload area (64 in the source)
MaxVersion == 2     \* candidate versions the host sends are 0..MaxVersion
MaxImageSize == 1   \* values the out-of-object read of image_size may yield

\* --------------------------------------------------------- program constants
FRAME_OK == 0
FRAME_BAD == 1
ERASED_WORD == -1
HASH_LEN == 32
FIRMWARE_BOOT_PTR == 536887296
MetaPageIndex == 173
HashBack == 80

FLASH_START == 0
FLASH_PAGE_SIZE == 4 * PageWords

FIRMWARE_HASH_PTR == FLASH_START + MetaPageIndex * FLASH_PAGE_SIZE - HashBack
FIRMWARE_METADATA_PTR == FLASH_START + MetaPageIndex * FLASH_PAGE_SIZE
FIRMWARE_SIZE_PTR == FIRMWARE_METADATA_PTR + 0
FIRMWARE_VERSION_PTR == FIRMWARE_METADATA_PTR + 4
FIRMWARE_RELEASE_MSG_PTR == FIRMWARE_METADATA_PTR + 8
FIRMWARE_RELEASE_MSG_PTR2 == FIRMWARE_METADATA_PTR + FLASH_PAGE_SIZE
\* the cast to unsigned char keeps the low eight bits of the address
FIRMWARE_DATA_PTR == (FIRMWARE_METADATA_PTR + (FLASH_PAGE_SIZE * 2)) % 256
FIRMWARE_STORAGE_PTR == FIRMWARE_METADATA_PTR + (FLASH_PAGE_SIZE * 2)
CONFIGURATION_METADATA_PTR == FIRMWARE_STORAGE_PTR + (FLASH_PAGE_SIZE * FwPages)
CONFIGURATION_SIZE_PTR == CONFIGURATION_METADATA_PTR + 0
CONFIGURATION_STORAGE_PTR == CONFIGURATION_METADATA_PTR + FLASH_PAGE_SIZE
FLASH_END == CONFIGURATION_STORAGE_PTR + (FLASH_PAGE_SIZE * CfgPages)

\* ------------------------------------------------------------ address space
Byte == 0..255
LowAddrs == FIRMWARE_DATA_PTR .. (FIRMWARE_DATA_PTR + MaxImageSize - 1)
HashAddrs == FIRMWARE_HASH_PTR .. (FIRMWARE_HASH_PTR + HASH_LEN - 1)
FlashAddrs == FIRMWARE_METADATA_PTR .. (FLASH_END - 1)
Addrs == LowAddrs \cup HashAddrs \cup FlashAddrs

PageBase(a) == a - (a % FLASH_PAGE_SIZE)

\* ------------------------------------------------------------ byte helpers
RECURSIVE BitAnd(_, _)
BitAnd(x, y) ==
    IF x = 0 \/ y = 0 THEN 0
    ELSE ((x % 2) * (y % 2)) + 2 * BitAnd(x \div 2, y \div 2)

\* A uint32_t is held as its 32-bit pattern in the integers TLC carries:
\* a value v from 2^31 on appears as v - 2^32 (0xFFFFFFFF as -1).  ULess
\* compares two patterns as the unsigned values they stand for.
ULess(x, y) == IF (x < 0) = (y < 0) THEN x < y ELSE y < 0

\* a uint32_t as it lies in memory (little endian)
WordBytes(w) ==
    << w % 256, (w \div 256) % 256, (w \div 65536) % 256, (w \div 16777216) % 256 >>

ReadWord(m, a) ==
    m[a] + 256 * m[a + 1] + 65536 * m[a + 2]
         + 16777216 * (IF m[a + 3] < 128 THEN m[a + 3] ELSE m[a + 3] - 256)

ReadBytes(m, a, n) == [i \in 1..n |-> m[a + i - 1]]

\* the bytes the host puts on the wire for a big-endian u16 / u32
BE16(v) == << (v \div 256) % 256, v % 256 >>
BE32(v) ==
    << (v \div 16777216) % 256, (v \div 65536) % 256, (v \div 256) % 256, v % 256 >>

Fill(n, b) == [i \in 1..n |-> b]

Take(s, n) == SubSeq(s, 1, n)

\* ------------------------------------------------------------ flash driver
\* erase the page that holds address a: every bit to 1
flash_erase_page(m, a) ==
    [x \in DOMAIN m |->
        IF x \in FlashAddrs /\ PageBase(x) = PageBase(a) THEN 255 ELSE m[x]]

\* program the bytes of data at a: programming only clears bits
flash_write(m, data, a) ==
    [x \in DOMAIN m |->
        IF x \in FlashAddrs /\ a <= x /\ x < a + Len(data)
        THEN (IF m[x] = 255 THEN data[x - a + 1] ELSE BitAnd(m[x], data[x - a + 1]))
        ELSE m[x]]

flash_write_word(m, w, a) == flash_write(m, WordBytes(w), a)

\* ------------------------------------------------------------------ events
\* the observable operations of the transaction in progress, in order
EvTx(b) == [op |-> "tx", a |-> b, n |-> 1]
EvErase(a) == [op |-> "erase", a |-> a, n |-> FLASH_PAGE_SIZE]
EvWrite(a, n) == [op |-> "write", a |-> a, n |-> n]
EvVerify(a, n) == [op |-> "verify", a |-> a, n |-> n]
EvJump(a) == [op |-> "jump", a |-> a, n |-> 0]

\* ------------------------------------------------------------------ crypto
\* AES-CBC with the fixed key and the zero IV stands behind this byte map;
\* it is a bijection on byte strings and not the identity.
AesCbcDecrypt(data) == [i \in 1..Len(data) |-> (data[i] + 128) % 256]

RECURSIVE WeightedSum(_, _)
WeightedSum(data, i) ==
    IF i > Len(data) THEN 0 ELSE (i * (data[i] + 1)) + WeightedSum(data, i + 1)

\* SHA-256 stands behind this 32-byte function of the message
Sha256(data) ==
    LET h == (WeightedSum(data, 1) + 7 * Len(data) + 99) % 65521
    IN  [k \in 1..HASH_LEN |->
            IF k = 1 THEN h % 256
            ELSE IF k = 2 THEN h \div 256
            ELSE (37 * k + h) % 256]

HexChar(d) == IF d < 10 THEN 48 + d ELSE 87 + d
HexVal(c) == IF c < 58 THEN c - 48 ELSE c - 87
\* a digest as the host writes it on a line: two hex digits per byte
HexLine(bytes) ==
    [i \in 1..(2 * Len(bytes)) |->
        IF i % 2 = 1 THEN HexChar(bytes[(i + 1) \div 2] \div 16)
        ELSE HexChar(bytes[i \div 2] % 16)]
HexDecode(line) ==
    [i \in 1..(Len(line) \div 2) |->
        16 * HexVal(line[2 * i - 1]) + HexVal(line[2 * i])]

\* ------------------------------------------------------------ host inputs
Versions == 0..MaxVersion
\* the values of -DOLDEST_VERSION of the builds looked at
OldestVersions == {1, 2}
Sizes == {0, 1, FLASH_PAGE_SIZE + 1}
CfgSizes == {1, FLASH_PAGE_SIZE * CfgPages}
Seeds == {1}
\* byte k (from 0) of the image the host streams
PayloadByte(s, k) == (17 * s + 3 * k) % 251
Payload(s, n) == [i \in 1..n |-> PayloadByte(s, i - 1)]
\* release message lines (without the newline): one that fills the first
\* page exactly with its terminator, one that spills by one byte
MsgLens == {FLASH_PAGE_SIZE - 9, FLASH_PAGE_SIZE - 8}
MsgLine(n) == [i \in 1..n |-> 65 + ((i - 1) % 26)]
\* what the uninitialised stack holds behind the terminator
Garbage == {0, 165}
\* the digest line the host sends with an image of n bytes: the digest of
\* the plaintext, in hex
DigestLines(n) == {HexLine(Sha256(AesCbcDecrypt(Payload(s, n)))) : s \in Seeds}
\* what the digest slot holds when the bootloader starts: nothing in the
\* source writes it, it is what the build put there
DigestSlots == {Sha256(<< >>)}
CodeByte(a) == (7 * a + 1) % 256
ImageSizes == 0..MaxImageSize
Cmds == {67, 85, 82, 66, 88}
ReadSizes == {0, 1, FLASH_PAGE_SIZE * CfgPages, FLASH_PAGE_SIZE + 1}
\* region selectors the host sends: 'F', 'C' and one that is neither
Regions == {70, 67, 88}

\* --------------------------------------------------------------- the state
VARIABLES
    OLDEST_VERSION,   \* the build's -DOLDEST_VERSION
    mem,              \* flash, by byte address
    ram,              \* the bytes copied to FIRMWARE_BOOT_PTR
    pc,               \* position of the thread of control
    trace,            \* events of the transaction in progress
    mem0,             \* flash when the transaction began; from the
                      \* transaction's first flash operation on, only its
                      \* version word
    version, size, rel_msg_size, rel_msg, sha256_hash, current_version,
    rem_bytes, rel_msg_read_ptr, rel_msg_write_ptr, ret,
    dst, remaining, frame_size, page_buffer, caller,
    sent,             \* the payload the host streams in this transaction
    address,          \* handle_readback's base address
    region,           \* handle_readback's region selector
    cmd,              \* main's command byte
    image, image_size, result   \* decrypt_firmware's argument, local and result

updVars == << version, size, rel_msg_size, rel_msg, sha256_hash, current_version,
              rem_bytes, rel_msg_read_ptr, rel_msg_write_ptr, ret >>
loadVars == << dst, remaining, frame_size, page_buffer, caller, sent >>
verVars == << image, image_size, result >>
rbVars == << address, region >>
vars == << OLDEST_VERSION, mem, ram, pc, trace, mem0, updVars, loadVars,
           rbVars, cmd, verVars >>

\* the bytes of the stored version word
VersionWord(m) ==
    [a \in FIRMWARE_VERSION_PTR .. (FIRMWARE_VERSION_PTR + 3) |-> m[a]]

InitialFlash(slot) ==
    [a \in Addrs |->
        IF a \in HashAddrs THEN slot[a - FIRMWARE_HASH_PTR + 1]
        ELSE IF a \in FlashAddrs THEN 255
        ELSE CodeByte(a)]

LocalsCleared ==
    /\ version = 0 /\ size = 0 /\ rel_msg_size = 0 /\ rel_msg = << >>
    /\ sha256_hash = << >> /\ current_version = 0
    /\ rem_bytes = 0 /\ rel_msg_read_ptr = 0 /\ rel_msg_write_ptr = 0 /\ ret = 0
    /\ dst = 0 /\ remaining = 0 /\ frame_size = 0 /\ page_buffer = << >>
    /\ caller = "none" /\ sent = << >> /\ address = 0
    /\ image = 0 /\ image_size = 0 /\ result = 0
    /\ region = 0 /\ cmd = 0

Init ==
    /\ OLDEST_VERSION \in OldestVersions
    /\ \E slot \in DigestSlots : mem = InitialFlash(slot)
    /\ ram = << >>
    /\ pc = "main"
    /\ trace = << >>
    /\ mem0 = << >>
    /\ LocalsCleared

\* the frame every handler returns with: its locals are gone
ReturnToMain ==
    /\ pc' = "main"
    /\ trace' = << >>
    /\ mem0' = << >>
    /\ version' = 0 /\ size' = 0 /\ rel_msg_size' = 0 /\ rel_msg' = << >>
    /\ sha256_hash' = << >> /\ current_version' = 0
    /\ rem_bytes' = 0 /\ rel_msg_read_ptr' = 0 /\ rel_msg_write_ptr' = 0 /\ ret' = 0
    /\ dst' = 0 /\ remaining' = 0 /\ frame_size' = 0 /\ page_buffer' = << >>
    /\ caller' = "none" /\ sent' = << >> /\ address' = 0
    /\ image' = 0 /\ image_size' = 0 /\ result' = 0
    /\ region' = 0 /\ cmd' = 0

\* -------------------------------------------------------------------- main
\* 'C' and 'U' taken for each other
Route_Swapped(c) ==
    CASE c = 67 -> "U_ack"
      [] c = 85 -> "C_ack"
      [] c = 82 -> "R_ack"
      [] c = 66 -> "B_ack"
      [] OTHER -> "main"

\* lines 436-451: the switch
Route(c) ==
    CASE c = 67 -> "C_ack"
      [] c = 85 -> "U_ack"
      [] c = 82 -> "R_ack"
      [] c = 66 -> "B_ack"
      [] OTHER -> "main"

\* main, lines 433-452: read one command byte and route it.  A byte of the
\* default case is dropped: the loop reads the next byte into cmd, in the
\* state it was in before
Dispatch ==
    /\ pc = "main"
    /\ \E c \in Cmds :
        /\ pc' = Route(c)
        /\ cmd' = IF pc' = "main" THEN 0 ELSE c
    /\ mem0' = IF pc' = "main" THEN << >> ELSE mem
    /\ UNCHANGED << OLDEST_VERSION, mem, ram, trace, updVars, loadVars,
                    rbVars, verVars >>

\* a reset that also throws the firmware metadata away
Reset_Erases ==
    /\ pc # "main"
    /\ ReturnToMain
    /\ ram' = << >>
    /\ mem' = flash_erase_page(mem, FIRMWARE_METADATA_PTR)
    /\ UNCHANGED << OLDEST_VERSION >>

\* a device reset: flash survives, RAM and the thread of control do not
Reset ==
    /\ pc # "main"
    /\ ReturnToMain
    /\ ram' = << >>
    /\ UNCHANGED << OLDEST_VERSION, mem >>

\* ----------------------------------------------------------- handle_update
\* line 292: acknowledge the host
U_Ack ==
    /\ pc = "U_ack"
    /\ trace' = Append(trace, EvTx(85))
    /\ pc' = "U_header"
    /\ UNCHANGED << OLDEST_VERSION, mem, ram, mem0, updVars, loadVars,
                    rbVars, cmd, verVars >>

\* lines 354-356: round up to whole words
RoundUp4(n) == IF n % 4 # 0 THEN n + (4 - (n % 4)) ELSE n

\* lines 311-314: the stored version, or OLDEST_VERSION on erased flash
ResolveVersion(stored, oldest) == IF stored = ERASED_WORD THEN oldest ELSE stored

\* the comparison one too low: a candidate just below the current version
\* passes
VersionRejected_OffByOne(v, c) == (v # 0) /\ ULess(v + 1, c)

\* line 316
VersionRejected(v, c) == (v # 0) /\ ULess(v, c)

\* lines 295-296: two bytes, high byte first
RecvVersion(b) == (b[1] * 256) + b[2]

\* lines 299-302 (and 140-143, 380-383): four bytes, high byte first
RecvSize(b) == (b[1] * 16777216) + (b[2] * 65536) + (b[3] * 256) + b[4]

\* lines 295-323, from the first byte of the header to the first effect that
\* follows it.  The host sends the version, the size, the release message
\* line and the digest line.  uart_readline stores the release message and
\* a terminator in rel_msg; the bytes behind the terminator are whatever the
\* stack held (those the rounding of lines 354-356 will read are kept).  The
\* digest line goes to the local sha256_hash and nowhere else.  Then the
\* version check runs: a rejected version is answered with FRAME_BAD
\* (rel_msg and sha256_hash are dead from there on and are dropped), an
\* accepted one has the metadata page erased.
U_RecvHeader(sizes) ==
    /\ pc = "U_header"
    /\ \E v \in Versions : version' = RecvVersion(BE16(v))
    /\ \E n \in sizes : size' = RecvSize(BE32(n))
    /\ current_version' =
          ResolveVersion(ReadWord(mem, FIRMWARE_VERSION_PTR), OLDEST_VERSION)
    /\ IF VersionRejected(version', current_version')
       THEN /\ rel_msg' = << >>
            /\ rel_msg_size' = 0
            /\ sha256_hash' = << >>
            /\ trace' = Append(trace, EvTx(FRAME_BAD))
            /\ mem' = mem
            /\ pc' = "U_ret"
            /\ mem0' = mem0
       ELSE /\ \E n \in MsgLens, g \in Garbage :
                /\ rel_msg' = MsgLine(n) \o << 0 >>
                                   \o Fill(RoundUp4(n + 1) - (n + 1), g)
                /\ rel_msg_size' = n + 1
            /\ \E line \in DigestLines(size') : sha256_hash' = line \o << 0 >>
            /\ trace' = Append(trace, EvErase(FIRMWARE_METADATA_PTR))
            /\ mem' = flash_erase_page(mem, FIRMWARE_METADATA_PTR)
            /\ pc' = "U_wver"
            /\ mem0' = VersionWord(mem0)
    /\ UNCHANGED << OLDEST_VERSION, ram, rem_bytes, rel_msg_read_ptr,
                    rel_msg_write_ptr, ret, loadVars, rbVars, cmd, verVars >>

\* the header of a host that declares one of the sizes of Sizes
U_RecvHeaderAndCheck == U_RecvHeader(Sizes)

\* the current version written whatever the candidate
VersionToStore_Current(v, c) == c

\* the candidate written even when it is 0
VersionToStore_Candidate(v, c) == v

\* lines 326-330: the word written to FIRMWARE_VERSION_PTR
VersionToStore(v, c) == IF v # 0 THEN v ELSE c

U_WriteVersion ==
    /\ pc = "U_wver"
    /\ mem' = flash_write_word(mem, VersionToStore(version, current_version),
                               FIRMWARE_VERSION_PTR)
    /\ trace' = Append(trace, EvWrite(FIRMWARE_VERSION_PTR, 4))
    /\ pc' = "U_wsize"
    /\ UNCHANGED << OLDEST_VERSION, ram, mem0, updVars, loadVars, rbVars, cmd, verVars >>

\* line 333
U_WriteSize ==
    /\ pc = "U_wsize"
    /\ mem' = flash_write_word(mem, size, FIRMWARE_SIZE_PTR)
    /\ trace' = Append(trace, EvWrite(FIRMWARE_SIZE_PTR, 4))
    /\ pc' = "U_msg"
    /\ UNCHANGED << OLDEST_VERSION, ram, mem0, updVars, loadVars, rbVars, cmd, verVars >>

\* the test taken with >= : a message that exactly fills the metadata page
\* is split too
MsgSplits_Inclusive(n) == ~ULess(n, FLASH_PAGE_SIZE - 8)

\* line 341: the release message goes outside of the first page
MsgSplits(n) == ULess(FLASH_PAGE_SIZE - 8, n)

\* lines 336-349: a message longer than the rest of the metadata page has
\* its first FLASH_PAGE_SIZE-8 bytes written here
U_WriteRelMsgFirst ==
    /\ pc = "U_msg"
    /\ IF MsgSplits(rel_msg_size)
       THEN /\ mem' = flash_write(mem, Take(rel_msg, FLASH_PAGE_SIZE - 8),
                                  FIRMWARE_RELEASE_MSG_PTR)
            /\ trace' = Append(trace, EvWrite(FIRMWARE_RELEASE_MSG_PTR,
                                              FLASH_PAGE_SIZE - 8))
            /\ rem_bytes' = rel_msg_size - (FLASH_PAGE_SIZE - 8)
            /\ rel_msg_read_ptr' = FLASH_PAGE_SIZE - 8
            /\ rel_msg_write_ptr' = FIRMWARE_RELEASE_MSG_PTR2
            /\ pc' = "U_msg_erase"
       ELSE /\ mem' = mem
            /\ trace' = trace
            /\ rem_bytes' = rel_msg_size
            /\ rel_msg_read_ptr' = 0
            /\ rel_msg_write_ptr' = FIRMWARE_RELEASE_MSG_PTR
            /\ pc' = "U_msg_last"
    /\ UNCHANGED << OLDEST_VERSION, ram, mem0, version, size, rel_msg_size,
                    rel_msg, sha256_hash, current_version, ret, loadVars,
                    rbVars, cmd, verVars >>

\* line 350
U_EraseRelMsgSecond ==
    /\ pc = "U_msg_erase"
    /\ mem' = flash_erase_page(mem, rel_msg_write_ptr)
    /\ trace' = Append(trace, EvErase(rel_msg_write_ptr))
    /\ pc' = "U_msg_last"
    /\ UNCHANGED << OLDEST_VERSION, ram, mem0, updVars, loadVars, rbVars, cmd, verVars >>

\* lines 354-357
U_WriteRelMsgLast ==
    /\ pc = "U_msg_last"
    /\ rem_bytes' = RoundUp4(rem_bytes)
    /\ mem' = flash_write(mem,
                          SubSeq(rel_msg, rel_msg_read_ptr + 1,
                                 rel_msg_read_ptr + rem_bytes'),
                          rel_msg_write_ptr)
    /\ trace' = Append(trace, EvWrite(rel_msg_write_ptr, rem_bytes'))
    /\ pc' = "U_ok"
    /\ UNCHANGED << OLDEST_VERSION, ram, mem0, version, size, rel_msg_size,
                    rel_msg, sha256_hash, current_version, rel_msg_read_ptr,
                    rel_msg_write_ptr, ret, loadVars, rbVars, cmd, verVars >>

\* the loop left after at most one frame
LoopTest_Once(rem, c) == IF c = "U" THEN "U_decrypt" ELSE "C_ret"

\* where load_data goes when its loop test (line 163) fails
AfterLoad(c) == IF c = "U" THEN "U_decrypt" ELSE "C_ret"
LoopTest(rem, c) == IF rem # 0 THEN "L_read" ELSE AfterLoad(c)

\* lines 360-363: acknowledge, then call load_data; the host, acknowledged,
\* has its payload of the declared size ready
U_AckOk ==
    /\ pc = "U_ok"
    /\ trace' = Append(trace, EvTx(FRAME_OK))
    /\ \E s \in Seeds : sent' = Payload(s, size)
    /\ dst' = FIRMWARE_STORAGE_PTR
    /\ remaining' = size
    /\ caller' = "U"
    /\ pc' = LoopTest(size, "U")
    /\ UNCHANGED << OLDEST_VERSION, mem, ram, mem0, updVars, frame_size,
                    page_buffer, rbVars, cmd, verVars >>

\* --------------------------------------------------------------- load_data
\* the clamp one byte short of a page
FrameSize_Short(rem) ==
    IF ULess(FLASH_PAGE_SIZE - 1, rem) THEN FLASH_PAGE_SIZE - 1 ELSE rem

\* line 165
FrameSize(rem) == IF ULess(FLASH_PAGE_SIZE, rem) THEN FLASH_PAGE_SIZE ELSE rem

\* the buffer behind the frame filled with zeroes
PadFrame_Zero(frame) == frame \o Fill(FLASH_PAGE_SIZE - Len(frame), 0)

\* lines 169-171: the buffer behind the frame is filled with 0xFF
PadFrame(frame) == frame \o Fill(FLASH_PAGE_SIZE - Len(frame), 255)

\* lines 165-171
L_Read ==
    /\ pc = "L_read"
    /\ frame_size' = FrameSize(remaining)
    /\ LET off == Len(sent) - remaining
       IN  page_buffer' = PadFrame(SubSeq(sent, off + 1, off + frame_size'))
    /\ pc' = "L_erase"
    /\ UNCHANGED << OLDEST_VERSION, mem, ram, trace, mem0, updVars, dst,
                    remaining, caller, sent, rbVars, cmd, verVars >>

\* a loader that refuses a page outside the firmware payload region
L_Erase_Bounded ==
    /\ pc = "L_erase"
    /\ IF caller = "U" /\ dst >= CONFIGURATION_METADATA_PTR
       THEN /\ mem' = mem
            /\ trace' = Append(trace, EvTx(FRAME_BAD))
            /\ pc' = AfterLoad(caller)
       ELSE /\ mem' = flash_erase_page(mem, dst)
            /\ trace' = Append(trace, EvErase(dst))
            /\ pc' = "L_write"
    /\ UNCHANGED << OLDEST_VERSION, ram, mem0, updVars, loadVars, rbVars, cmd, verVars >>

\* line 173
L_Erase ==
    /\ pc = "L_erase"
    /\ mem' = flash_erase_page(mem, dst)
    /\ trace' = Append(trace, EvErase(dst))
    /\ pc' = "L_write"
    /\ UNCHANGED << OLDEST_VERSION, ram, mem0, updVars, loadVars, rbVars, cmd, verVars >>

\* line 175
L_Write ==
    /\ pc = "L_write"
    /\ mem' = flash_write(mem, page_buffer, dst)
    /\ trace' = Append(trace, EvWrite(dst, FLASH_PAGE_SIZE))
    /\ pc' = "L_ack"
    /\ UNCHANGED << OLDEST_VERSION, ram, mem0, updVars, loadVars, rbVars, cmd, verVars >>

\* lines 177-180, and the loop test of line 163
L_Ack ==
    /\ pc = "L_ack"
    /\ dst' = dst + FLASH_PAGE_SIZE
    /\ remaining' = remaining - frame_size
    /\ trace' = Append(trace, EvTx(FRAME_OK))
    /\ pc' = LoopTest(remaining', caller)
    /\ UNCHANGED << OLDEST_VERSION, mem, ram, mem0, updVars, frame_size,
                    page_buffer, caller, sent, rbVars, cmd, verVars >>

\* -------------------------------------------------------- decrypt_firmware
\* lines 195-219: decrypt len bytes in place at enc_data.  The stores of the
\* in-place decryption go to addresses of the flash, which changes only
\* through flash_erase_page and flash_write: they do not land, and what is
\* read back afterwards is what the flash held.
do_AES_decrypt(m, enc_data, len) ==
    LET plain == AesCbcDecrypt(ReadBytes(m, enc_data, len))
    IN  [x \in DOMAIN m |->
            IF enc_data <= x /\ x < enc_data + len /\ x \notin Addrs
            THEN plain[x - enc_data + 1] ELSE m[x]]

\* lines 184-193
compute_sha256(m, data, len) == Sha256(ReadBytes(m, data, len))

\* lines 227-274.  img_size is what the four bytes at image +
\* FIRMWARE_SIZE_PTR hold: no object lies there, the caller of this operator
\* supplies the value read.  The result is the memory after the in-place
\* decryption and the value returned.
decrypt_firmware(m, img, img_size) ==
    IF img = 0
    THEN [mem |-> m, result |-> -1]
    ELSE LET m2 == do_AES_decrypt(m, FIRMWARE_DATA_PTR, img_size)
             hash == compute_sha256(m2, FIRMWARE_DATA_PTR, img_size)
         IN  [mem |-> m2,
              result |-> IF \E i \in 0..(HASH_LEN - 1) :
                                hash[i + 1] # m2[FIRMWARE_HASH_PTR + i]
                         THEN -1 ELSE 0]

\* a failed check reported to the host with FRAME_BAD
U_Decrypt_Propagate ==
    /\ pc = "U_decrypt"
    /\ \E n \in ImageSizes :
        LET r == decrypt_firmware(mem, FIRMWARE_BOOT_PTR, n)
        IN  /\ image' = FIRMWARE_BOOT_PTR
            /\ image_size' = n
            /\ mem' = r.mem
            /\ result' = r.result
            /\ ret' = r.result % 256
            /\ trace' = IF r.result = 0
                        THEN Append(trace, EvVerify(FIRMWARE_DATA_PTR, n))
                        ELSE Append(Append(trace, EvVerify(FIRMWARE_DATA_PTR, n)),
                                    EvTx(FRAME_BAD))
    /\ pc' = "U_ret"
    /\ UNCHANGED << OLDEST_VERSION, ram, mem0, version, size, rel_msg_size,
                    rel_msg, sha256_hash, current_version, rem_bytes,
                    rel_msg_read_ptr, rel_msg_write_ptr, loadVars, rbVars, cmd >>

\* line 365: the int result is stored in a uint8_t that nothing reads
U_Decrypt ==
    /\ pc = "U_decrypt"
    /\ \E n \in ImageSizes :
        LET r == decrypt_firmware(mem, FIRMWARE_BOOT_PTR, n)
        IN  /\ image' = FIRMWARE_BOOT_PTR
            /\ image_size' = n
            /\ mem' = r.mem
            /\ result' = r.result
            /\ ret' = r.result % 256
            /\ trace' = Append(trace, EvVerify(FIRMWARE_DATA_PTR, n))
    /\ pc' = "U_ret"
    /\ UNCHANGED << OLDEST_VERSION, ram, mem0, version, size, rel_msg_size,
                    rel_msg, sha256_hash, current_version, rem_bytes,
                    rel_msg_read_ptr, rel_msg_write_ptr, loadVars, rbVars, cmd >>

\* line 240: the read of image_size outside every object may also trap, and
\* so may the stores of the in-place decryption; the device then sits in its
\* fault handler until it is reset
U_DecryptFault ==
    /\ pc = "U_decrypt"
    /\ pc' = "fault"
    /\ UNCHANGED << OLDEST_VERSION, mem, ram, trace, mem0, updVars, loadVars,
                    rbVars, cmd, verVars >>

\* lines 319 and 366: back to the dispatcher
U_Return ==
    /\ pc = "U_ret"
    /\ ReturnToMain
    /\ UNCHANGED << OLDEST_VERSION, mem, ram >>

\* -------------------------------------------------------- handle_configure
\* line 377
C_Ack ==
    /\ pc = "C_ack"
    /\ trace' = Append(trace, EvTx(67))
    /\ pc' = "C_size"
    /\ UNCHANGED << OLDEST_VERSION, mem, ram, mem0, updVars, loadVars,
                    rbVars, cmd, verVars >>

\* lines 380-383
C_RecvSize ==
    /\ pc = "C_size"
    /\ \E n \in CfgSizes : size' = RecvSize(BE32(n))
    /\ pc' = "C_erase"
    /\ mem0' = VersionWord(mem0)
    /\ UNCHANGED << OLDEST_VERSION, mem, ram, trace, version, rel_msg_size,
                    rel_msg, sha256_hash, current_version, rem_bytes,
                    rel_msg_read_ptr, rel_msg_write_ptr, ret, loadVars,
                    rbVars, cmd, verVars >>

\* the erase aimed at the firmware metadata page
C_EraseMeta_Firmware ==
    /\ pc = "C_erase"
    /\ mem' = flash_erase_page(mem, FIRMWARE_METADATA_PTR)
    /\ trace' = Append(trace, EvErase(FIRMWARE_METADATA_PTR))
    /\ pc' = "C_wsize"
    /\ UNCHANGED << OLDEST_VERSION, ram, mem0, updVars, loadVars, rbVars, cmd, verVars >>

\* line 385
C_EraseMeta ==
    /\ pc = "C_erase"
    /\ mem' = flash_erase_page(mem, CONFIGURATION_METADATA_PTR)
    /\ trace' = Append(trace, EvErase(CONFIGURATION_METADATA_PTR))
    /\ pc' = "C_wsize"
    /\ UNCHANGED << OLDEST_VERSION, ram, mem0, updVars, loadVars, rbVars, cmd, verVars >>

\* line 386
C_WriteSize ==
    /\ pc = "C_wsize"
    /\ mem' = flash_write_word(mem, size, CONFIGURATION_SIZE_PTR)
    /\ trace' = Append(trace, EvWrite(CONFIGURATION_SIZE_PTR, 4))
    /\ pc' = "C_ok"
    /\ UNCHANGED << OLDEST_VERSION, ram, mem0, updVars, loadVars, rbVars, cmd, verVars >>

\* the payload loaded from the metadata page on, over the size word
C_AckOk_AtMetadata ==
    /\ pc = "C_ok"
    /\ trace' = Append(trace, EvTx(FRAME_OK))
    /\ \E s \in Seeds : sent' = Payload(s, size)
    /\ dst' = CONFIGURATION_METADATA_PTR
    /\ remaining' = size
    /\ caller' = "C"
    /\ pc' = LoopTest(size, "C")
    /\ UNCHANGED << OLDEST_VERSION, mem, ram, mem0, updVars, frame_size,
                    page_buffer, rbVars, cmd, verVars >>

\* lines 388-391
C_AckOk ==
    /\ pc = "C_ok"
    /\ trace' = Append(trace, EvTx(FRAME_OK))
    /\ \E s \in Seeds : sent' = Payload(s, size)
    /\ dst' = CONFIGURATION_STORAGE_PTR
    /\ remaining' = size
    /\ caller' = "C"
    /\ pc' = LoopTest(size, "C")
    /\ UNCHANGED << OLDEST_VERSION, mem, ram, mem0, updVars, frame_size,
                    page_buffer, rbVars, cmd, verVars >>

\* line 392
C_Return ==
    /\ pc = "C_ret"
    /\ ReturnToMain
    /\ UNCHANGED << OLDEST_VERSION, mem, ram >>

\* --------------------------------------------------------- handle_readback
\* line 120
R_Ack ==
    /\ pc = "R_ack"
    /\ trace' = Append(trace, EvTx(82))
    /\ pc' = "R_region"
    /\ UNCHANGED << OLDEST_VERSION, mem, ram, mem0, updVars, loadVars,
                    rbVars, cmd, verVars >>

\* a selector that is neither 'F' nor 'C' served as the firmware region
R_Region_Default ==
    /\ pc = "R_region"
    /\ \E r \in Regions :
        /\ region' = r
        /\ IF r = 67
           THEN /\ address' = CONFIGURATION_STORAGE_PTR
                /\ trace' = Append(trace, EvTx(67))
                /\ pc' = "R_send"
           ELSE /\ address' = FIRMWARE_STORAGE_PTR
                /\ trace' = Append(trace, EvTx(r))
                /\ pc' = "R_send"
    /\ UNCHANGED << OLDEST_VERSION, mem, ram, mem0, updVars, loadVars,
                    cmd, verVars >>

\* lines 123-137
R_Region ==
    /\ pc = "R_region"
    /\ \E r \in Regions :
        /\ region' = r
        /\ IF r = 70
           THEN /\ address' = FIRMWARE_STORAGE_PTR
                /\ trace' = Append(trace, EvTx(70))
                /\ pc' = "R_send"
           ELSE IF r = 67
           THEN /\ address' = CONFIGURATION_STORAGE_PTR
                /\ trace' = Append(trace, EvTx(67))
                /\ pc' = "R_send"
           ELSE /\ address' = address
                /\ trace' = trace
                /\ pc' = "R_ret"
    /\ UNCHANGED << OLDEST_VERSION, mem, ram, mem0, updVars, loadVars,
                    cmd, verVars >>

TxAll(bytes) == [i \in 1..Len(bytes) |-> EvTx(bytes[i])]

\* the reply cut to the size recorded for the region
R_Send_Clamped ==
    /\ pc = "R_send"
    /\ \E n \in ReadSizes :
        LET sz == RecvSize(BE32(n))
            rec == ReadWord(mem, IF region = 70 THEN FIRMWARE_SIZE_PTR
                                                ELSE CONFIGURATION_SIZE_PTR)
        IN  /\ address + n <= FLASH_END
            /\ size' = sz
            /\ trace' = trace \o TxAll(ReadBytes(mem, address,
                                                  IF ULess(rec, sz) THEN rec ELSE sz))
    /\ pc' = "R_ret"
    /\ UNCHANGED << OLDEST_VERSION, mem, ram, mem0, version, rel_msg_size,
                    rel_msg, sha256_hash, current_version, rem_bytes,
                    rel_msg_read_ptr, rel_msg_write_ptr, ret, loadVars,
                    rbVars, cmd, verVars >>

\* lines 140-146: the host asks for n bytes; the model's host stays inside
\* the flash it holds
R_Send ==
    /\ pc = "R_send"
    /\ \E n \in ReadSizes :
        LET sz == RecvSize(BE32(n))
        IN  /\ address + n <= FLASH_END
            /\ size' = sz
            /\ trace' = trace \o TxAll(ReadBytes(mem, address, sz))
    /\ pc' = "R_ret"
    /\ UNCHANGED << OLDEST_VERSION, mem, ram, mem0, version, rel_msg_size,
                    rel_msg, sha256_hash, current_version, rem_bytes,
                    rel_msg_read_ptr, rel_msg_write_ptr, ret, loadVars,
                    rbVars, cmd, verVars >>

\* lines 136 and 147
R_Return ==
    /\ pc = "R_ret"
    /\ ReturnToMain
    /\ UNCHANGED << OLDEST_VERSION, mem, ram >>

\* ------------------------------------------------------------- handle_boot
\* line 84
B_Ack ==
    /\ pc = "B_ack"
    /\ trace' = Append(trace, EvTx(66))
    /\ pc' = "B_copy"
    /\ UNCHANGED << OLDEST_VERSION, mem, ram, mem0, updVars, loadVars,
                    rbVars, cmd, verVars >>

\* the whole first payload page copied, whatever the stored size
B_Copy_Page ==
    /\ pc = "B_copy"
    /\ size' = ReadWord(mem, FIRMWARE_SIZE_PTR)
    /\ IF size' >= 0 /\ size' <= FLASH_END - FIRMWARE_STORAGE_PTR
       THEN /\ ram' = ReadBytes(mem, FIRMWARE_STORAGE_PTR, FLASH_PAGE_SIZE)
            /\ pc' = "B_m"
       ELSE /\ ram' = ram
            /\ pc' = "fault"
    /\ UNCHANGED << OLDEST_VERSION, mem, trace, mem0, version, rel_msg_size,
                    rel_msg, sha256_hash, current_version, rem_bytes,
                    rel_msg_read_ptr, rel_msg_write_ptr, ret, loadVars,
                    rbVars, cmd, verVars >>

\* lines 87-92: copy size bytes; a size that runs the copy off the flash
\* ends in the fault handler
B_Copy ==
    /\ pc = "B_copy"
    /\ size' = ReadWord(mem, FIRMWARE_SIZE_PTR)
    /\ IF size' >= 0 /\ size' <= FLASH_END - FIRMWARE_STORAGE_PTR
       THEN /\ ram' = ReadBytes(mem, FIRMWARE_STORAGE_PTR, size')
            /\ pc' = "B_m"
       ELSE /\ ram' = ram
            /\ pc' = "fault"
    /\ UNCHANGED << OLDEST_VERSION, mem, trace, mem0, version, rel_msg_size,
                    rel_msg, sha256_hash, current_version, rem_bytes,
                    rel_msg_read_ptr, rel_msg_write_ptr, ret, loadVars,
                    rbVars, cmd, verVars >>

\* line 94
B_SendM ==
    /\ pc = "B_m"
    /\ trace' = Append(trace, EvTx(77))
    /\ pc' = "B_msg"
    /\ UNCHANGED << OLDEST_VERSION, mem, ram, mem0, updVars, loadVars,
                    rbVars, cmd, verVars >>

\* the addresses from a on that hold a NUL byte
NulsFrom(m, a) == {x \in FlashAddrs : x >= a /\ m[x] = 0}
FirstNul(m, a) == CHOOSE x \in NulsFrom(m, a) : \A y \in NulsFrom(m, a) : x <= y

\* lines 97-102: the bytes up to the first NUL, then the terminator; with
\* no NUL left in the flash the loop runs off its end
B_SendMsg ==
    /\ pc = "B_msg"
    /\ IF NulsFrom(mem, FIRMWARE_RELEASE_MSG_PTR) # {}
       THEN /\ trace' = (trace \o
                  TxAll(ReadBytes(mem, FIRMWARE_RELEASE_MSG_PTR,
                        FirstNul(mem, FIRMWARE_RELEASE_MSG_PTR)
                            - FIRMWARE_RELEASE_MSG_PTR))) \o << EvTx(0) >>
            /\ pc' = "B_jump"
       ELSE /\ trace' = trace
            /\ pc' = "fault"
    /\ UNCHANGED << OLDEST_VERSION, mem, ram, mem0, updVars, loadVars,
                    rbVars, cmd, verVars >>

\* lines 105-106: control passes to the copied image, at the boot address
\* with bit 0 set, and never comes back
B_Jump ==
    /\ pc = "B_jump"
    /\ trace' = Append(trace, EvJump(FIRMWARE_BOOT_PTR + 1))
    /\ pc' = "firmware"
    /\ UNCHANGED << OLDEST_VERSION, mem, ram, mem0, updVars, loadVars,
                    rbVars, cmd, verVars >>

\* ------------------------------------------------------- the specification
Next ==
    \/ Dispatch \/ Reset
    \/ U_Ack \/ U_RecvHeaderAndCheck
    \/ U_WriteVersion \/ U_WriteSize
    \/ U_WriteRelMsgFirst \/ U_EraseRelMsgSecond \/ U_WriteRelMsgLast
    \/ U_AckOk \/ U_Decrypt \/ U_DecryptFault \/ U_Return
    \/ L_Read \/ L_Erase \/ L_Write \/ L_Ack
    \/ C_Ack \/ C_RecvSize \/ C_EraseMeta \/ C_WriteSize \/ C_AckOk \/ C_Return
    \/ R_Ack \/ R_Region \/ R_Send \/ R_Return
    \/ B_Ack \/ B_Copy \/ B_SendM \/ B_SendMsg \/ B_Jump

Spec == Init /\ [][Next]_vars

TypeOK ==
    /\ OLDEST_VERSION \in OldestVersions
    /\ DOMAIN mem = Addrs
    /\ \A a \in Addrs : mem[a] \in Byte

\* ---------------------------------------- decrypt_firmware as a function
\* The function applied to a flash that holds a loaded image: the size word,
\* the payload at FIRMWARE_STORAGE_PTR and a digest slot.
VerifySeeds == {1, 2}
VerifyLens == {0, 1, 2}

\* one bit of byte k of p changed
Flip(p, k) ==
    [i \in 1..Len(p) |->
        IF i = k THEN (IF p[i] % 2 = 0 THEN p[i] + 1 ELSE p[i] - 1) ELSE p[i]]

VerifyImages == {Payload(s, n) : s \in VerifySeeds, n \in VerifyLens}
VerifyPayloads ==
    VerifyImages \cup UNION {{Flip(p, k) : k \in 1..Len(p)} : p \in VerifyImages}

\* the digest slots tried: erased, the digest of each image's plaintext, and
\* the digests of the first bytes at FIRMWARE_DATA_PTR
VerifySlots ==
    {Fill(HASH_LEN, 255)}
        \cup {Sha256(AesCbcDecrypt(p)) : p \in VerifyImages}
        \cup {Sha256([i \in 1..n |-> CodeByte(FIRMWARE_DATA_PTR + i - 1)]) :
                 n \in ImageSizes}

\* the flash after an update that loaded p
LoadedFlash(slot, p) ==
    flash_write(flash_write_word(InitialFlash(slot), Len(p), FIRMWARE_SIZE_PTR),
                PadFrame(p), FIRMWARE_STORAGE_PTR)

InitVerify ==
    /\ OLDEST_VERSION \in OldestVersions
    /\ \E slot \in VerifySlots, p \in VerifyPayloads : mem = LoadedFlash(slot, p)
    /\ ram = << >>
    /\ pc = "V_call"
    /\ trace = << >>
    /\ mem0 = << >>
    /\ LocalsCleared

\* lines 227-274, called with a null or a non-null image
V_Call ==
    /\ pc = "V_call"
    /\ \E img \in {0, FIRMWARE_BOOT_PTR}, n \in ImageSizes :
        LET r == decrypt_firmware(mem, img, n)
        IN  /\ image' = img
            /\ image_size' = IF img = 0 THEN 0 ELSE n
            /\ mem' = r.mem
            /\ result' = r.result
    /\ pc' = "V_done"
    /\ UNCHANGED << OLDEST_VERSION, ram, trace, mem0, updVars, loadVars,
                    rbVars, cmd >>

NextVerify == V_Call

SpecVerify == InitVerify /\ [][NextVerify]_vars

\* ------------------------------------------------ vocabulary of the claims
TxBytes(tr) == SelectSeq(tr, LAMBDA e : e.op = "tx")
FlashOps(tr) == SelectSeq(tr, LAMBDA e : e.op \in {"erase", "write"})
VerifyOps(tr) == SelectSeq(tr, LAMBDA e : e.op = "verify")
OtherOps(tr) == SelectSeq(tr, LAMBDA e : e.op # "verify")
IsPrefix(s, t) == Len(s) <= Len(t) /\ s = SubSeq(t, 1, Len(s))

StoredVersion(m) == ReadWord(m, FIRMWARE_VERSION_PTR)
\* the resolved current version of a flash
CurrentVersion(m) == ResolveVersion(StoredVersion(m), OLDEST_VERSION)
DigestSlot(m) == ReadBytes(m, FIRMWARE_HASH_PTR, HASH_LEN)
StoredPayload(m) ==
    ReadBytes(m, FIRMWARE_STORAGE_PTR, ReadWord(m, FIRMWARE_SIZE_PTR))

LoaderPcs == {"L_read", "L_erase", "L_write", "L_ack"}
\* handle_update has answered FRAME_BAD and is about to return
Rejected == pc = "U_ret" /\ Len(trace) = 2 /\ trace[2] = EvTx(FRAME_BAD)
\* handle_update is past its version check
Accepted ==
    \/ pc \in {"U_wver", "U_wsize", "U_msg", "U_msg_erase", "U_msg_last", "U_ok"}
    \/ (pc \in (LoaderPcs \cup {"U_decrypt"}) /\ caller = "U")
    \/ (pc = "U_ret" /\ ~Rejected)
\* ... and past the write of the version word
VersionWritten == Accepted /\ pc # "U_wver"
\* an accepted update has run to its end
Completed == pc = "U_ret" /\ ~Rejected

\* ---------------------------------------------------------------------- C1
\* C1: an update whose candidate version v is not 0 and is below the
\* resolved current version c (the stored word, or OLDEST_VERSION when the
\* stored word is 0xFFFFFFFF) is answered with the status byte 0x01 and
\* returns with no flash erase and no flash program: every flash byte is
\* what it was before the transaction.
C1_RejectedUpdateLeavesFlash ==
    (pc = "U_ret" /\ version # 0 /\ ULess(version, CurrentVersion(mem0))) =>
        /\ TxBytes(trace) = << EvTx(85), EvTx(FRAME_BAD) >>
        /\ FlashOps(trace) = << >>
        /\ VerifyOps(trace) = << >>
        /\ mem = mem0

C1_Witness ==
    /\ pc = "U_ret"
    /\ version # 0
    /\ ULess(version, CurrentVersion(mem0))
    /\ StoredVersion(mem0) # ERASED_WORD
    /\ trace[Len(trace)] = EvTx(FRAME_BAD)

\* ---------------------------------------------------------------------- C2
\* C2: the stored version never goes back, whatever the commands and however
\* a transaction ends (return, stalled host, device reset): a transaction
\* that began with the version word holding n (not 0xFFFFFFFF) hands the
\* dispatcher a flash whose version word is not below n and on which no
\* version below n is accepted.
C2_VersionNeverGoesBack ==
    [][(pc # "main" /\ pc' = "main" /\ StoredVersion(mem0) # ERASED_WORD) =>
          ~ULess(CurrentVersion(mem'), StoredVersion(mem0))]_vars

\* ---------------------------------------------------------------------- C3
\* C3 (as stated): a candidate v # 0 with v >= the stored version, or with
\* the stored word 0xFFFFFFFF, is not rejected, and after the metadata write
\* the stored version word is v.
C3_AsStated ==
    /\ Rejected =>
          ~(version # 0 /\ (StoredVersion(mem0) = ERASED_WORD
                              \/ ~ULess(version, StoredVersion(mem0))))
    /\ (VersionWritten /\ version # 0) => StoredVersion(mem) = version

\* C3 (amended): a candidate v # 0 with v >= the resolved current version c
\* (OLDEST_VERSION when the stored word is 0xFFFFFFFF) is not rejected: the
\* device sends 0x00 and never 0x01, and after the metadata write the stored
\* version word is v.  A candidate below the stored version is rejected and
\* the stored version stays.
C3_AcceptedUpdateStoresCandidate ==
    /\ Rejected =>
          /\ version # 0 /\ ULess(version, CurrentVersion(mem0))
          /\ StoredVersion(mem) = StoredVersion(mem0)
    /\ (VersionWritten /\ version # 0) =>
          /\ ~ULess(version, CurrentVersion(mem0))
          /\ StoredVersion(mem) = version
          /\ \A i \in 1..Len(trace) : trace[i] # EvTx(FRAME_BAD)
    /\ (Completed /\ version # 0) => TxBytes(trace)[2] = EvTx(FRAME_OK)

C3_Witness ==
    /\ Completed
    /\ version # 0
    /\ StoredVersion(mem0) = ERASED_WORD
    /\ StoredVersion(mem) = version

\* ---------------------------------------------------------------------- C4
\* C4 (as stated): a candidate 0 is never rejected and leaves the stored
\* version word equal to what it was before the transaction, 0xFFFFFFFF
\* included.
C4_AsStated ==
    /\ Rejected => version # 0
    /\ (VersionWritten /\ version = 0) =>
          StoredVersion(mem) = StoredVersion(mem0)

\* C4 (amended): a candidate 0 is never rejected and the stored version word
\* after the metadata write is the resolved current version: the word as it
\* was, or OLDEST_VERSION when it was 0xFFFFFFFF.
C4_KeepStoresResolvedVersion ==
    /\ Rejected => version # 0
    /\ (VersionWritten /\ version = 0) =>
          /\ StoredVersion(mem) = CurrentVersion(mem0)
          /\ (StoredVersion(mem0) # ERASED_WORD =>
                StoredVersion(mem) = StoredVersion(mem0))
          /\ (StoredVersion(mem0) = ERASED_WORD =>
                StoredVersion(mem) = OLDEST_VERSION)

C4_Witness ==
    /\ Completed
    /\ version = 0
    /\ StoredVersion(mem0) = ERASED_WORD
    /\ StoredVersion(mem) = OLDEST_VERSION

\* ---------------------------------------------------------------------- C5
\* C5: after an accepted update the 32-byte digest slot that
\* decrypt_firmware compares against holds the digest the host sent on the
\* digest line of that update (as the 32 bytes the line spells in hex, or as
\* the first 32 bytes of the line).
C5_DigestSlotHoldsHostDigest ==
    Completed =>
        LET line == Take(sha256_hash, Len(sha256_hash) - 1)
        IN  \/ DigestSlot(mem) = HexDecode(line)
            \/ DigestSlot(mem) = Take(line, HASH_LEN)

\* ---------------------------------------------------------------------- C6
\* C6: decrypt_firmware returns Fail (-1) for a null image; for a non-null
\* image it returns Ok (0) exactly when the digest of the decrypted payload
\* equals the stored digest in all 32 bytes; and changing one payload byte
\* of an image that verifies makes it return Fail.
C6_VerifyIffDigestMatches ==
    pc = "V_done" =>
        /\ image = 0 => result = -1
        /\ image # 0 =>
              ((result = 0) <=>
                  (Sha256(AesCbcDecrypt(StoredPayload(mem))) = DigestSlot(mem)))
        /\ (image # 0 /\ result = 0) =>
              \A k \in 1..Len(StoredPayload(mem)) :
                  LET a == FIRMWARE_STORAGE_PTR + k - 1
                      flipped == [mem EXCEPT ![a] = IF mem[a] % 2 = 0
                                                    THEN mem[a] + 1
                                                    ELSE mem[a] - 1]
                  IN  decrypt_firmware(flipped, image, image_size).result = -1

\* ---------------------------------------------------------------------- C7
\* C7: the integrity check at the end of an update decrypts and hashes
\* exactly the size bytes at FIRMWARE_STORAGE_PTR, and leaves there the
\* decrypted form of what the host sent.
C7_VerifiesLoadedPayload ==
    Completed =>
        /\ trace[Len(trace)] = EvVerify(FIRMWARE_STORAGE_PTR, size)
        /\ ReadBytes(mem, FIRMWARE_STORAGE_PTR, size) = AesCbcDecrypt(sent)

\* ---------------------------------------------------------------------- C8
\* C8: the result of the integrity check is not propagated.  The check,
\* whatever it returns, sends no byte and changes no flash byte, the handler
\* then returns to the dispatcher, and handle_boot copies the stored image
\* and jumps to it without looking at any verification outcome.
C8_FailNotPropagated ==
    [][/\ (pc = "U_decrypt" /\ pc' = "U_ret") =>
              /\ mem' = mem
              /\ TxBytes(trace') = TxBytes(trace)
              /\ result' \in {0, -1}
       /\ pc = "U_ret" => (pc' = "main" /\ mem' = mem)
       /\ pc' = "B_jump" => ram' = StoredPayload(mem')
       /\ pc = "B_jump" => pc' \in {"firmware", "main"}]_vars

C8_Witness ==
    /\ Completed
    /\ result = -1
    /\ ret = 255
    /\ trace[Len(trace)].op = "verify"

\* ---------------------------------------------------------------------- C9
RECURSIVE LoadOrder(_, _)
LoadOrder(d, n) ==
    IF n <= 0 THEN << >>
    ELSE << EvErase(d), EvWrite(d, FLASH_PAGE_SIZE), EvTx(FRAME_OK) >>
             \o LoadOrder(d + FLASH_PAGE_SIZE, n - FLASH_PAGE_SIZE)

MsgOrder(n) ==
    IF n > FLASH_PAGE_SIZE - 8
    THEN << EvWrite(FIRMWARE_RELEASE_MSG_PTR, FLASH_PAGE_SIZE - 8),
            EvErase(FIRMWARE_RELEASE_MSG_PTR2),
            EvWrite(FIRMWARE_RELEASE_MSG_PTR2,
                    4 * ((n - (FLASH_PAGE_SIZE - 8) + 3) \div 4)) >>
    ELSE << EvWrite(FIRMWARE_RELEASE_MSG_PTR, 4 * ((n + 3) \div 4)) >>

UpdateOrder ==
    << EvTx(85), EvErase(FIRMWARE_METADATA_PTR),
       EvWrite(FIRMWARE_VERSION_PTR, 4), EvWrite(FIRMWARE_SIZE_PTR, 4) >>
        \o MsgOrder(rel_msg_size)
        \o << EvTx(FRAME_OK) >>
        \o LoadOrder(FIRMWARE_STORAGE_PTR, size)

\* C9: an accepted update does, in this order: erase of the metadata page,
\* write of the version, write of the size, write of the release message,
\* the 0x00 acknowledgment, the payload page by page (erase, program,
\* acknowledge), and then one integrity check as its last step; nothing of
\* the payload is programmed before the release message is written and the
\* check never runs before the last frame is programmed.
C9_UpdateOrder ==
    Accepted =>
        /\ IsPrefix(OtherOps(trace), UpdateOrder)
        /\ Len(VerifyOps(trace)) <= 1
        /\ Len(VerifyOps(trace)) = 1 =>
              /\ trace[Len(trace)].op = "verify"
              /\ OtherOps(trace) = UpdateOrder
        /\ pc = "U_ret" => Len(VerifyOps(trace)) = 1

C9_Witness ==
    /\ Completed
    /\ size > FLASH_PAGE_SIZE
    /\ rel_msg_size > FLASH_PAGE_SIZE - 8
    /\ Len(VerifyOps(trace)) = 1

\* --------------------------------------------------------------------- C10
LoadBase == IF caller = "U" THEN FIRMWARE_STORAGE_PTR ELSE CONFIGURATION_STORAGE_PTR
NextBoundary(a) ==
    IF a % FLASH_PAGE_SIZE = 0 THEN a ELSE PageBase(a) + FLASH_PAGE_SIZE

\* C10: when load_data returns, the L bytes from its page-aligned
\* destination d on are the bytes the host streamed, in order, and every
\* byte from d+L to the next page boundary is 0xFF.
C10_LoaderRoundTrip ==
    pc \in {"U_decrypt", "C_ret"} =>
        /\ LoadBase % FLASH_PAGE_SIZE = 0
        /\ ReadBytes(mem, LoadBase, Len(sent)) = sent
        /\ \A a \in (LoadBase + Len(sent)) ..
                      (NextBoundary(LoadBase + Len(sent)) - 1) : mem[a] = 255

C10_Witness ==
    /\ pc = "U_decrypt"
    /\ Len(sent) = FLASH_PAGE_SIZE + 1
    /\ mem[FIRMWARE_STORAGE_PTR + FLASH_PAGE_SIZE] = sent[FLASH_PAGE_SIZE + 1]
    /\ mem[FIRMWARE_STORAGE_PTR + FLASH_PAGE_SIZE + 1] = 255

\* --------------------------------------------------------------------- C11
\* load_data as a function: called by either handler with a size that keeps
\* it inside the flash, on a flash that holds nothing yet.
LoadLens == 0 .. (2 * FLASH_PAGE_SIZE + 1)
LoadCallers == {"U", "C"}
CallerBase(c) ==
    IF c = "U" THEN FIRMWARE_STORAGE_PTR ELSE CONFIGURATION_STORAGE_PTR

InitLoad ==
    /\ OLDEST_VERSION \in OldestVersions
    /\ \E slot \in DigestSlots : mem = InitialFlash(slot)
    /\ ram = << >>
    /\ trace = << >>
    /\ mem0 = VersionWord(mem)
    /\ \E c \in LoadCallers, n \in LoadLens, s \in Seeds :
        /\ CallerBase(c) + n <= FLASH_END
        /\ caller = c
        /\ cmd = (IF c = "U" THEN 85 ELSE 67)
        /\ dst = CallerBase(c)
        /\ size = n
        /\ remaining = n
        /\ sent = Payload(s, n)
        /\ pc = LoopTest(n, c)
    /\ version = 0 /\ rel_msg_size = 0 /\ rel_msg = << >>
    /\ sha256_hash = << >> /\ current_version = 0
    /\ rem_bytes = 0 /\ rel_msg_read_ptr = 0 /\ rel_msg_write_ptr = 0 /\ ret = 0
    /\ frame_size = 0 /\ page_buffer = << >>
    /\ address = 0 /\ region = 0
    /\ image = 0 /\ image_size = 0 /\ result = 0

NextLoad == L_Read \/ L_Erase \/ L_Write \/ L_Ack

\* the host supplies every byte asked for and the flash operations complete
SpecLoad == InitLoad /\ [][NextLoad]_vars /\ WF_vars(NextLoad)

LoadReturned == pc \in {"U_decrypt", "C_ret"}
Min(a, b) == IF a < b THEN a ELSE b
FramesOf(n) == (n + FLASH_PAGE_SIZE - 1) \div FLASH_PAGE_SIZE

LoadInv ==
    /\ remaining >= 0 /\ remaining <= Len(sent)
    /\ IsPrefix(trace, LoadOrder(LoadBase, Len(sent)))
    /\ \A i \in 1..Len(trace) : trace[i] # EvTx(FRAME_BAD)
    /\ pc \in {"L_erase", "L_write", "L_ack"} =>
          /\ frame_size = Min(remaining, FLASH_PAGE_SIZE)
          /\ dst = LoadBase + FLASH_PAGE_SIZE * Len(TxBytes(trace))
    /\ LoadReturned =>
          /\ remaining = 0
          /\ Len(TxBytes(trace)) = FramesOf(Len(sent))
          /\ Len(FlashOps(trace)) = 2 * FramesOf(Len(sent))
          /\ trace = LoadOrder(LoadBase, Len(sent))

\* C11: load_data, fed every byte it asks for, returns after exactly
\* ceil(size / FLASH_PAGE_SIZE) frames (none for size 0); frame k reads
\* min(remaining, FLASH_PAGE_SIZE) bytes, erases page d + k*FLASH_PAGE_SIZE,
\* programs that page and sends one 0x00, in that order; remaining never
\* underflows and 0x01 is never sent.
C11_LoaderTerminates == []LoadInv /\ <>LoadReturned

C11_Witness ==
    /\ LoadReturned
    /\ Len(sent) = 2 * FLASH_PAGE_SIZE + 1
    /\ Len(TxBytes(trace)) = 3
    /\ remaining = 0

\* --------------------------------------------------------------------- C12
\* The release message part of handle_update (lines 335-357) on its own, for
\* every message length around the split: the state is the one line 333
\* leaves, on a flash whose second metadata page is erased or still holds
\* the tail of an earlier message.
MsgLineLens == 0 .. (FLASH_PAGE_SIZE - 8 + 4)
StaleTails == {<< >>, << 90, 0, 165, 165 >>}

\* the flash an earlier update left: its version 1 and the tail of its
\* message on the second metadata page
PriorFlash(slot, t) ==
    IF t = << >> THEN InitialFlash(slot)
    ELSE flash_write(flash_write_word(InitialFlash(slot), 1, FIRMWARE_VERSION_PTR),
                     t, FIRMWARE_RELEASE_MSG_PTR2)

InitMsg ==
    /\ OLDEST_VERSION \in OldestVersions
    /\ ram = << >>
    /\ pc = "U_msg"
    /\ cmd = 85
    /\ \E slot \in DigestSlots, t \in StaleTails, v \in Versions, n \in Sizes :
         LET prior == PriorFlash(slot, t)
             cur == ResolveVersion(ReadWord(prior, FIRMWARE_VERSION_PTR),
                                   OLDEST_VERSION)
         IN  /\ ~VersionRejected(v, cur)
             /\ version = v
             /\ size = n
             /\ current_version = cur
             /\ mem0 = VersionWord(prior)
             /\ mem = flash_write_word(
                          flash_write_word(
                              flash_erase_page(prior, FIRMWARE_METADATA_PTR),
                              VersionToStore(v, cur), FIRMWARE_VERSION_PTR),
                          n, FIRMWARE_SIZE_PTR)
             /\ \E line \in DigestLines(n) : sha256_hash = line \o << 0 >>
    /\ trace = << EvTx(85), EvErase(FIRMWARE_METADATA_PTR),
                  EvWrite(FIRMWARE_VERSION_PTR, 4), EvWrite(FIRMWARE_SIZE_PTR, 4) >>
    /\ \E n \in MsgLineLens, g \in Garbage :
         /\ rel_msg = MsgLine(n) \o << 0 >> \o Fill(RoundUp4(n + 1) - (n + 1), g)
         /\ rel_msg_size = n + 1
    /\ rem_bytes = 0 /\ rel_msg_read_ptr = 0 /\ rel_msg_write_ptr = 0 /\ ret = 0
    /\ dst = 0 /\ remaining = 0 /\ frame_size = 0 /\ page_buffer = << >>
    /\ caller = "none" /\ sent = << >> /\ address = 0 /\ region = 0
    /\ image = 0 /\ image_size = 0 /\ result = 0

NextMsg == U_WriteRelMsgFirst \/ U_EraseRelMsgSecond \/ U_WriteRelMsgLast

SpecMsg == InitMsg /\ [][NextMsg]_vars

SecondPage(m) == ReadBytes(m, FIRMWARE_RELEASE_MSG_PTR2, FLASH_PAGE_SIZE)
OnSecondPage(e) ==
    /\ e.op \in {"erase", "write"}
    /\ PageBase(e.a) = PageBase(FIRMWARE_RELEASE_MSG_PTR2)
MsgTail(n) == 4 * ((n - (FLASH_PAGE_SIZE - 8) + 3) \div 4)

\* the release message as handle_update leaves it (line 357 done)
MsgStored ==
    pc = "U_ok" =>
        IF rel_msg_size > FLASH_PAGE_SIZE - 8
        THEN /\ ReadBytes(mem, FIRMWARE_RELEASE_MSG_PTR, FLASH_PAGE_SIZE - 8)
                    = Take(rel_msg, FLASH_PAGE_SIZE - 8)
             /\ SecondPage(mem)
                    = SubSeq(rel_msg, FLASH_PAGE_SIZE - 7,
                             FLASH_PAGE_SIZE - 8 + MsgTail(rel_msg_size))
                      \o Fill(FLASH_PAGE_SIZE - MsgTail(rel_msg_size), 255)
             /\ SubSeq(trace, 5, Len(trace))
                    = << EvWrite(FIRMWARE_RELEASE_MSG_PTR, FLASH_PAGE_SIZE - 8),
                         EvErase(FIRMWARE_RELEASE_MSG_PTR2),
                         EvWrite(FIRMWARE_RELEASE_MSG_PTR2, MsgTail(rel_msg_size)) >>
        ELSE /\ ReadBytes(mem, FIRMWARE_RELEASE_MSG_PTR, 4 * ((rel_msg_size + 3) \div 4))
                    = Take(rel_msg, 4 * ((rel_msg_size + 3) \div 4))
             /\ SubSeq(trace, 5, Len(trace))
                    = << EvWrite(FIRMWARE_RELEASE_MSG_PTR,
                                 4 * ((rel_msg_size + 3) \div 4)) >>
             /\ \A i \in 1..Len(trace) : ~OnSecondPage(trace[i])

\* a message that fits leaves the second page as it was, at every step
SecondPageKept ==
    [][rel_msg_size <= FLASH_PAGE_SIZE - 8 => SecondPage(mem') = SecondPage(mem)]_vars

\* C12: a release message whose length with its terminator exceeds
\* FLASH_PAGE_SIZE-8 has its first FLASH_PAGE_SIZE-8 bytes written at
\* metadata+8, the second metadata page erased and the remainder, rounded up
\* to a multiple of 4, written there; a shorter one is written to the
\* primary area only (rounded up to a multiple of 4) and the second page is
\* neither erased nor programmed.
C12_ReleaseMessageSplit == []MsgStored /\ SecondPageKept

\* a message that fills the primary area exactly, written over a flash whose
\* second page holds an older tail (kept), and one that needs the second
\* page, with a last word to round up
C12_WitnessKept ==
    /\ pc = "U_ok"
    /\ rel_msg_size = FLASH_PAGE_SIZE - 8
    /\ SecondPage(mem) # Fill(FLASH_PAGE_SIZE, 255)
C12_Witness ==
    /\ pc = "U_ok"
    /\ rel_msg_size = FLASH_PAGE_SIZE - 8 + 2
    /\ SecondPage(mem) # Fill(FLASH_PAGE_SIZE, 255)

\* --------------------------------------------------------------------- C13
RegionBase(r) == IF r = 70 THEN FIRMWARE_STORAGE_PTR ELSE CONFIGURATION_STORAGE_PTR
ReadbackDone == pc = "R_ret" /\ region \in {70, 67}

\* C13: a readback of n bytes of region F or C sends 'R', the region byte,
\* then exactly the n bytes stored from the region's storage base on,
\* whatever size is recorded for the region and whatever its capacity, and
\* erases or programs nothing.
C13_ReadbackIdentity ==
    ReadbackDone =>
        /\ trace = << EvTx(82), EvTx(region) >>
                      \o TxAll(ReadBytes(mem0, RegionBase(region), size))
        /\ Len(TxBytes(trace)) = size + 2
        /\ FlashOps(trace) = << >>
        /\ mem = mem0

\* more bytes than the firmware region holds and than its recorded size,
\* read back after an update stored one byte
C13_Witness ==
    /\ ReadbackDone
    /\ region = 70
    /\ size = FLASH_PAGE_SIZE + 1
    /\ ReadWord(mem, FIRMWARE_SIZE_PTR) = 1
    /\ mem[FIRMWARE_STORAGE_PTR] # 255

\* --------------------------------------------------------------------- C14
\* The program with a host that sends configure and readback commands only:
\* the dispatcher, handle_configure with load_data, handle_readback.
NextCfg ==
    \/ Dispatch
    \/ C_Ack \/ C_RecvSize \/ C_EraseMeta \/ C_WriteSize \/ C_AckOk
    \/ L_Read \/ L_Erase \/ L_Write \/ L_Ack
    \/ C_Return
    \/ R_Ack \/ R_Region \/ R_Send \/ R_Return

SpecCfg == Init /\ [][NextCfg]_vars

ConfigureOrder(n) ==
    << EvTx(67), EvErase(CONFIGURATION_METADATA_PTR),
       EvWrite(CONFIGURATION_SIZE_PTR, 4), EvTx(FRAME_OK) >>
        \o LoadOrder(CONFIGURATION_STORAGE_PTR, n)

\* handle_configure at its return
ConfigureDone ==
    pc = "C_ret" =>
        /\ trace = ConfigureOrder(size)
        /\ ReadWord(mem, CONFIGURATION_SIZE_PTR) = size
        /\ ReadBytes(mem, CONFIGURATION_STORAGE_PTR, size) = sent

\* a finished readback of region C, of as many bytes as the configure
\* before it stored
ConfigureReadBack ==
    /\ pc = "R_ret"
    /\ region = 67
    /\ size = ReadWord(mem, CONFIGURATION_SIZE_PTR)

\* C14: configure acknowledges with 'C', erases the configuration metadata
\* page, writes the size n there, sends 0x00 and loads the payload P at the
\* configuration storage base; a readback of region C with size n that
\* follows returns P.
C14_ConfigureRoundTrip ==
    /\ ConfigureDone
    /\ ConfigureReadBack =>
          \E s \in Seeds :
              trace = << EvTx(82), EvTx(67) >> \o TxAll(Payload(s, size))

C14_Witness ==
    /\ ConfigureReadBack
    /\ size = FLASH_PAGE_SIZE * CfgPages
    /\ Len(trace) = size + 2

\* --------------------------------------------------------------------- C15
ReadbackAborted == pc = "R_ret" /\ region \notin {70, 67}

AbortedSilently ==
    ReadbackAborted =>
        /\ trace = << EvTx(82) >>
        /\ size = 0
        /\ address = 0
        /\ mem = mem0

\* C15: a readback whose region selector is neither 'F' nor 'C' ends after
\* the 'R' acknowledgment: no further byte is sent, no size is read, the
\* flash is unchanged, and the handler returns to the dispatcher.
C15_BadRegionAborts ==
    /\ []AbortedSilently
    /\ [][ReadbackAborted => pc' = "main" /\ mem' = mem]_vars

\* the abort on a flash that holds a configuration
C15_Witness ==
    /\ ReadbackAborted
    /\ region = 88
    /\ ReadWord(mem, CONFIGURATION_SIZE_PTR) = 1

\* --------------------------------------------------------------------- C16
UpdatePcs ==
    {"U_ack", "U_header", "U_wver", "U_wsize", "U_msg", "U_msg_erase",
     "U_msg_last", "U_ok", "U_decrypt", "U_ret"}
ConfigurePcs == {"C_ack", "C_size", "C_erase", "C_wsize", "C_ok", "C_ret"}
ReadbackPcs == {"R_ack", "R_region", "R_send", "R_ret"}
BootPcs == {"B_ack", "B_copy", "B_m", "B_msg", "B_jump"}
ReturnPcs == {"U_ret", "C_ret", "R_ret"}

\* the command byte whose handler the program is in
RunningFor ==
    CASE pc \in UpdatePcs -> {85}
      [] pc \in ConfigurePcs -> {67}
      [] pc \in ReadbackPcs -> {82}
      [] pc \in BootPcs \cup {"firmware"} -> {66}
      [] pc \in LoaderPcs -> IF caller = "U" THEN {85} ELSE {67}
      [] pc = "fault" -> {85, 66}
      [] OTHER -> {0}

\* the handler that runs is the handler of the command byte read last; the
\* dispatcher waits for a byte with nothing sent and no command pending
RoutedByCommand ==
    /\ cmd \in RunningFor
    /\ pc = "main" => trace = << >> /\ cmd = 0

\* reading a command byte starts the handler at its first statement and
\* does nothing else
DispatchStep ==
    [][pc = "main" =>
          /\ pc' \in {"main", "C_ack", "U_ack", "R_ack", "B_ack"}
          /\ mem' = mem /\ ram' = ram /\ trace' = trace]_vars

\* the next command byte is read after the handler has returned (or after a
\* reset; a reset leaves no RAM image)
HandlerCompletes ==
    [][pc # "main" =>
          \/ pc' # "main" /\ cmd' = cmd
          \/ pc' = "main" /\ mem' = mem /\ (pc \in ReturnPcs \/ ram' = << >>)]_vars

\* the loop is left by the jump of handle_boot; from the image, and from a
\* trap, the dispatcher is reached again by a reset only
LeftByBoot ==
    [][/\ pc' = "firmware" => pc = "B_jump" /\ cmd = 66
       /\ pc \in {"firmware", "fault"} => pc' = "main" /\ ram' = << >>]_vars

\* C16: the dispatcher routes 'C' to handle_configure, 'U' to handle_update,
\* 'R' to handle_readback and 'B' to handle_boot, reads the next command
\* byte only when the handler has run to its end, drops every other byte
\* with nothing sent and no flash changed, and is left only by the control
\* transfer of handle_boot or by a reset.
C16_DispatcherRoutes ==
    /\ []RoutedByCommand
    /\ DispatchStep
    /\ HandlerCompletes
    /\ LeftByBoot

\* the second command of a session in its handler, and the image running
C16_Witness ==
    /\ pc = "C_erase"
    /\ cmd = 67
    /\ ReadWord(mem, FIRMWARE_SIZE_PTR) = 1
C16_WitnessLeft == pc = "firmware" /\ cmd = 66 /\ Len(ram) = 1

\* --------------------------------------------------------------------- C17
\* the stored release message: the bytes before the first NUL
StoredMessage(m) ==
    ReadBytes(m, FIRMWARE_RELEASE_MSG_PTR,
              FirstNul(m, FIRMWARE_RELEASE_MSG_PTR) - FIRMWARE_RELEASE_MSG_PTR)

Copied ==
    /\ size = ReadWord(mem, FIRMWARE_SIZE_PTR)
    /\ Len(ram) = size
    /\ ram = ReadBytes(mem, FIRMWARE_STORAGE_PTR, size)

MessageSent ==
    /\ NulsFrom(mem, FIRMWARE_RELEASE_MSG_PTR) # {}
    /\ \A i \in 1..Len(StoredMessage(mem)) : StoredMessage(mem)[i] # 0
    /\ SubSeq(trace, 1, Len(StoredMessage(mem)) + 3)
          = << EvTx(66), EvTx(77) >> \o TxAll(StoredMessage(mem)) \o << EvTx(0) >>

\* handle_boot, statement by statement
BootOrder ==
    /\ pc \in BootPcs \cup {"firmware"} => mem = mem0 /\ FlashOps(trace) = << >>
    /\ pc = "B_copy" => trace = << EvTx(66) >>
    /\ pc = "B_m" => trace = << EvTx(66) >> /\ Copied
    /\ pc = "B_msg" => trace = << EvTx(66), EvTx(77) >> /\ Copied
    /\ pc = "B_jump" =>
          Copied /\ MessageSent /\ Len(trace) = Len(StoredMessage(mem)) + 3
    /\ pc = "firmware" =>
          /\ Copied /\ MessageSent
          /\ Len(trace) = Len(StoredMessage(mem)) + 4
          /\ trace[Len(trace)] = EvJump(FIRMWARE_BOOT_PTR + 1)

PayloadPages ==
    FIRMWARE_STORAGE_PTR .. (FIRMWARE_STORAGE_PTR + FLASH_PAGE_SIZE * FwPages - 1)
Consistent(m) ==
    IF ReadWord(m, FIRMWARE_SIZE_PTR) = ERASED_WORD
    THEN \A x \in PayloadPages : m[x] = 255
    ELSE /\ ReadWord(m, FIRMWARE_SIZE_PTR) \in Sizes
         /\ FIRMWARE_STORAGE_PTR + ReadWord(m, FIRMWARE_SIZE_PTR) <= FLASH_END
         /\ \E s \in Seeds :
              StoredPayload(m) = Payload(s, ReadWord(m, FIRMWARE_SIZE_PTR))
Inconsistent(m) == ~Consistent(m)

\* only steps of handle_update (the erase of the metadata page over an empty
\* payload region, the write of the size word, the loader programming a
\* payload page) make an inconsistent flash consistent
NoRecovery ==
    [][Inconsistent(mem) /\ ~Inconsistent(mem') =>
          /\ cmd = 85
          /\ \/ pc \in {"U_header", "U_wsize"}
             \/ pc = "L_write" /\ caller = "U"]_vars

\* handle_boot on an inconsistent flash copies what is there
BootsAnyway ==
    /\ Inconsistent(mem)
    /\ ReadWord(mem, FIRMWARE_SIZE_PTR) # ERASED_WORD
    /\ pc \in {"B_m", "B_msg", "B_jump", "firmware"}
    => Copied

C18_WitnessMain == pc = "main" /\ Inconsistent(mem) /\ StoredVersion(mem) = 2
C18_WitnessPartial ==
    /\ pc = "L_read" /\ caller = "U"
    /\ size = FLASH_PAGE_SIZE + 1
    /\ remaining = 1
    /\ Inconsistent(mem)

\* --------------------------------------------------------------------- C19
\* The program with a host that configures the device and sends updates
\* whose declared size is beyond the firmware payload region: one byte into
\* the configuration metadata page, and one byte into the configuration
\* payload page behind it.
FirmwareCapacity == FLASH_PAGE_SIZE * FwPages
OverrunSizes == {FirmwareCapacity + 1, FirmwareCapacity + FLASH_PAGE_SIZE + 1}

U_RecvHeaderOverrun == U_RecvHeader(OverrunSizes)

NextOverrun ==
    \/ Dispatch
    \/ C_Ack \/ C_RecvSize \/ C_EraseMeta \/ C_WriteSize \/ C_AckOk \/ C_Return
    \/ U_Ack \/ U_RecvHeaderOverrun
    \/ U_WriteVersion \/ U_WriteSize
    \/ U_WriteRelMsgFirst \/ U_EraseRelMsgSecond \/ U_WriteRelMsgLast
    \/ U_AckOk \/ U_Decrypt \/ U_DecryptFault \/ U_Return
    \/ L_Read \/ L_Erase \/ L_Write \/ L_Ack

SpecOverrun == Init /\ [][NextOverrun]_vars

\* an accepted update that declares more than the firmware region holds
Overrunning == Accepted /\ size > FirmwareCapacity

\* the frame of the loader that is in progress
FrameNo == (dst - FIRMWARE_STORAGE_PTR) \div FLASH_PAGE_SIZE

OverrunInv ==
    Overrunning =>
        /\ IsPrefix(OtherOps(trace), UpdateOrder)
        /\ \A i \in 1..Len(trace) : trace[i] # EvTx(FRAME_BAD)
        /\ pc \in {"L_erase", "L_write", "L_ack"} /\ FrameNo >= FwPages =>
              dst = CONFIGURATION_METADATA_PTR + FLASH_PAGE_SIZE * (FrameNo - FwPages)
        /\ pc = "L_write" /\ FrameNo >= FwPages =>
              ReadBytes(mem, dst, FLASH_PAGE_SIZE) = Fill(FLASH_PAGE_SIZE, 255)
        /\ pc = "L_ack" /\ FrameNo >= FwPages =>
              ReadBytes(mem, dst, FLASH_PAGE_SIZE) = page_buffer
        /\ pc \in {"U_decrypt", "U_ret"} =>
              /\ OtherOps(trace) = UpdateOrder
              /\ ReadBytes(mem, FIRMWARE_STORAGE_PTR, size) = sent
              /\ mem[CONFIGURATION_SIZE_PTR] = sent[FirmwareCapacity + 1]
              /\ ReadWord(mem, CONFIGURATION_SIZE_PTR) \notin CfgSizes

\* C19: load_data checks no bound: an update that declares more than the
\* firmware payload region holds is accepted, its frames behind the region
\* erase and program the configuration metadata page and then the
\* configuration payload pages, the stored configuration size and data are
\* overwritten, and no error status is sent.
C19_LoaderOverrunsConfiguration == OverrunInv

\* the third frame of an update done on a device that held a configuration
\* of a full region: the configuration payload page now holds the frame
C19_Witness ==
    /\ Overrunning
    /\ pc = "L_ack"
    /\ dst = CONFIGURATION_STORAGE_PTR
    /\ mem[CONFIGURATION_STORAGE_PTR] = sent[FirmwareCapacity + FLASH_PAGE_SIZE + 1]
    /\ mem[CONFIGURATION_STORAGE_PTR] # Payload(1, 1)[1]

\* the frame before: a stored configuration size about to be erased
C19_WitnessStored ==
    /\ Overrunning
    /\ pc = "L_erase"
    /\ dst = CONFIGURATION_METADATA_PTR
    /\ ReadWord(mem, CONFIGURATION_SIZE_PTR) = FLASH_PAGE_SIZE * CfgPages

\* --------------------------------------------------------------------- C20
\* the firmware record: both metadata pages and the payload pages; the
\* configuration record: its metadata page and its payload pages
FirmwareRecord(m) ==
    ReadBytes(m, FIRMWARE_METADATA_PTR,
              CONFIGURATION_METADATA_PTR - FIRMWARE_METADATA_PTR)
ConfigurationRecord(m) ==
    ReadBytes(m, CONFIGURATION_METADATA_PTR, FLASH_END - CONFIGURATION_METADATA_PTR)

PageBases == {x \in FlashAddrs : PageBase(x) = x}
PageAt(m, b) == ReadBytes(m, b, FLASH_PAGE_SIZE)

\* the pages an update of n bytes with a release message of k bytes may touch
UpdatePages(n, k) ==
    {FIRMWARE_METADATA_PTR}
      \cup (IF k > FLASH_PAGE_SIZE - 8 THEN {FIRMWARE_RELEASE_MSG_PTR2} ELSE {})
      \cup {FIRMWARE_STORAGE_PTR + FLASH_PAGE_SIZE * (i - 1) : i \in 1..FramesOf(n)}

ConfigureKeepsFirmware ==
    [][cmd = 67 => FirmwareRecord(mem') = FirmwareRecord(mem)]_vars

UpdateKeepsConfiguration ==
    [][cmd = 85 /\ size' <= FirmwareCapacity /\ size <= FirmwareCapacity =>
          ConfigurationRecord(mem') = ConfigurationRecord(mem)]_vars

UpdateTouchesItsPages ==
    [][cmd = 85 /\ pc' # "main" =>
          \A b \in PageBases \ UpdatePages(size', rel_msg_size') :
              PageAt(mem', b) = PageAt(mem, b)]_vars

\* C20: a configure leaves the firmware record (version, size, release
\* message pages, payload pages) bitwise unchanged; an accepted update whose
\* declared size is at most the firmware region leaves the configuration
\* record bitwise unchanged; an update touches only the firmware metadata
\* page, the second release message page when the message needs it, and the
\* first ceil(size / FLASH_PAGE_SIZE) payload pages.
C20_CrossRegionFrame ==
    /\ ConfigureKeepsFirmware
    /\ UpdateKeepsConfiguration
    /\ UpdateTouchesItsPages

\* an update of one byte finished on a device that holds a configuration of
\* a full region, and a configure finished on a device that holds firmware
C20_Witness ==
    /\ Completed
    /\ size = 1
    /\ ReadWord(mem, CONFIGURATION_SIZE_PTR) = FLASH_PAGE_SIZE * CfgPages
    /\ ReadBytes(mem, CONFIGURATION_STORAGE_PTR, FLASH_PAGE_SIZE * CfgPages)
         = Payload(1, FLASH_PAGE_SIZE * CfgPages)
C20_WitnessConfigure ==
    /\ pc = "C_ret"
    /\ size = FLASH_PAGE_SIZE * CfgPages
    /\ StoredVersion(mem) = 2
    /\ StoredPayload(mem) = Payload(1, 1)

====
